---- MODULE Spec2Model ----
(***************************************************************************)
(* Model of cmd/syncthing/generate/generate.go: the `syncthing generate`   *)
(* bootstrap.  Generate runs on the caller's thread, step by step, against *)
(* a small disk (directory, certificate file, key file, configuration      *)
(* file); the configuration wrapper's serving goroutine (cfg.Serve) runs   *)
(* concurrently and applies the queued GUI-credential mutation.            *)
(*                                                                         *)
(* Strings that are only compared are TLA+ strings.  Passwords and stored  *)
(* password hashes live in the same Go string type and are compared with   *)
(* each other by the code, so both are sequences of naturals: a bcrypt     *)
(* hash is <<0, salt>> \o plaintext ("$2a$" marker, salt, digest).         *)
(*                                                                         *)
(* Spec is one invocation of Generate from every disk and argument list,   *)
(* SpecTwice is consecutive invocations on the same directory, SpecActor   *)
(* is the configuration wrapper alone with concurrent callers.             *)
(***************************************************************************)
EXTENDS Integers, Sequences, FiniteSets, TLC

\* ------------------------------------------------------------------ bounds
MaxRuns == 2     \* consecutive invocations of Generate on the same directory
NumCerts == 2    \* distinct certificates the generation primitive can produce
MaxSalt == 2     \* distinct salts the hashing primitive can draw
MaxSubmit == 3   \* mutation requests submitted in the actor-only specification
BufSize == 2         \* bytes the bufio.Reader of line 53 holds (4096 by default)

\* ------------------------------------------------------------- data model
Certs == 1..NumCerts
Salts == 1..MaxSalt

\* A file on disk: absent, present but not parseable, present but not
\* readable (permission), or present with well-formed content `data`.
File(st, d) == [state |-> st, data |-> d]
AbsentFile == File("absent", 0)
MalformedFile == File("malformed", 0)
UnreadableFile == File("unreadable", 0)
PemFile(c) == File("ok", c)

Users == {"", "a", "b"}
NoPassword == <<>>
\* bcrypt with a random salt: never the identity, never empty.
Hash(p, salt) == <<0, salt>> \o p
\* The plaintexts a caller may supply: nothing, a short secret, another one,
\* and a string that is itself the text of a stored hash.
Passwords == {NoPassword, <<1>>, <<2>>, Hash(<<1>>, 1)}

GUIConfiguration(u, p) == [User |-> u, Password |-> p]
Configuration(id, gui, folder, probed) ==
    [myID |-> id, GUI |-> gui, defaultFolder |-> folder, probed |-> probed]
NoCfg == Configuration(0, GUIConfiguration("", NoPassword), FALSE, FALSE)
CfgFile(st, c) == [state |-> st, cfg |-> c]
AbsentCfg == CfgFile("absent", NoCfg)
MalformedCfg == CfgFile("malformed", NoCfg)

\* protocol.NewDeviceID: a digest of the certificate's raw bytes.
NewDeviceID(c) == (c * 31 + 7) % 257

\* ------------------------------------------------ updateGUIAuthentication
NoError == ""
HashingError == "failed to set GUI authentication password"
LogUser == "Updated GUI authentication user name"
LogPassword == "Updated GUI authentication password"

\* GUIConfiguration.HashAndSetPassword: hashes and stores, or fails and
\* stores nothing.
HashAndSetPassword(guiCfg, guiPassword, hashOK, salt) ==
    IF hashOK
    THEN [gui |-> [guiCfg EXCEPT !.Password = Hash(guiPassword, salt)], err |-> NoError]
    ELSE [gui |-> guiCfg, err |-> HashingError]

\* updateGUIAuthentication without the `guiCfg.User != guiUser` test of
\* line 125: a supplied user name is always assigned and logged.
updateGUIAuthentication_AlwaysSetUser(guiCfg, guiUser, guiPassword, hashOK, salt) ==
    LET setUser == guiUser # ""
        g1 == IF setUser THEN [guiCfg EXCEPT !.User = guiUser] ELSE guiCfg
        l1 == IF setUser THEN {LogUser} ELSE {}
        setPw == guiPassword # NoPassword /\ g1.Password # guiPassword
        h == HashAndSetPassword(g1, guiPassword, hashOK, salt)
    IN  IF ~setPw THEN [gui |-> g1, logs |-> l1, err |-> NoError]
        ELSE IF h.err # NoError THEN [gui |-> h.gui, logs |-> l1, err |-> h.err]
        ELSE [gui |-> h.gui, logs |-> l1 \cup {LogPassword}, err |-> NoError]

\* The result of updateGUIAuthentication on guiCfg: the sub-record as the
\* function leaves it, the lines it logged, the error it returns.  hashOK
\* and salt are the hashing primitive's outcome.
updateGUIAuthentication(guiCfg, guiUser, guiPassword, hashOK, salt) ==
    LET setUser == guiUser # "" /\ guiCfg.User # guiUser
        g1 == IF setUser THEN [guiCfg EXCEPT !.User = guiUser] ELSE guiCfg
        l1 == IF setUser THEN {LogUser} ELSE {}
        setPw == guiPassword # NoPassword /\ g1.Password # guiPassword
        h == HashAndSetPassword(g1, guiPassword, hashOK, salt)
    IN  IF ~setPw THEN [gui |-> g1, logs |-> l1, err |-> NoError]
        ELSE IF h.err # NoError THEN [gui |-> h.gui, logs |-> l1, err |-> h.err]
        ELSE [gui |-> h.gui, logs |-> l1 \cup {LogPassword}, err |-> NoError]

\* ------------------------------------------------------------------ state
VARIABLES
    expandOK,         \* whether fs.ExpandTilde can resolve confDir
    dirExists,        \* the configuration directory exists
    certFile,         \* locations.CertFile on disk
    keyFile,          \* locations.KeyFile on disk
    cfgFile,          \* locations.ConfigFile on disk
    guiUser, guiPassword, noDefaultFolder, skipPortProbing,   \* Generate's arguments
    pc,               \* Generate's position
    err,              \* the error Generate returns (NoError: nil)
    loadErr,          \* why tls.LoadX509KeyPair failed, when it did
    cert,             \* the tls.Certificate held by Generate (0: none yet)
    myID,             \* the derived protocol.DeviceID (0: none yet)
    cfg,              \* the wrapper's in-memory configuration
    actor,            \* the serving goroutine: Stopped, Starting, Serving
    queue,            \* mutation requests accepted and not yet taken
    cur,              \* the request the actor is applying (NoRequest: none)
    signalled,        \* waiters that have been signalled
    cancelled,        \* the serving context has been cancelled
    updateErr,        \* Generate's local written by its mutation closure
    run,              \* which invocation this is
    logs,             \* lines logged by this invocation
    genCalls,         \* invocations of syncthing.GenerateCertificate in this run
    saveCalls,        \* invocations of cfg.Save in this run
    disk0,            \* the three files, standard input and the password argument
                      \* as they were when this run started
    prev,             \* the previous invocation: whether there was one, its ID, its
                      \* result and how often it generated a certificate
    guiBefore,        \* the GUI sub-record handed to the latest closure
    submitted,        \* every request accepted, in submission order
    applied,          \* every request applied, in application order
    defaultCalls,     \* invocations of syncthing.DefaultConfig in this run
    runPc,            \* CLI.Run's position ("none": Generate was called directly)
    runErr,           \* the error CLI.Run returns (NoError: nil)
    homeDir,          \* c.HomeDir
    confDir,          \* c.ConfDir, then Generate's confDir
    stdin,            \* standard input: what is left to read, or broken
    stdinReads,       \* calls of ReadLine on standard input
    generateCalls     \* invocations of Generate by CLI.Run

disk == <<expandOK, dirExists, certFile, keyFile, cfgFile>>
cli == <<runPc, runErr, homeDir, confDir, stdin, stdinReads, generateCalls>>
args == <<guiUser, guiPassword, noDefaultFolder, skipPortProbing, cli>>
locals == <<pc, err, loadErr, cert, myID>>
wrapper == <<cfg, actor, queue, cur, signalled, cancelled, updateErr>>
history == <<run, logs, genCalls, saveCalls, defaultCalls, disk0, prev, guiBefore,
             submitted, applied>>
vars == <<disk, args, locals, wrapper, history>>

LogKeyExists == "WARNING: Key exists; will not overwrite."
LogDeviceID == "Device ID:"

\* A queued modification: the waiter it is paired with and the closure,
\* which is either Generate's (lines 107-109) or a plain "set username".
Request(w, kind, u, p) == [w |-> w, kind |-> kind, user |-> u, password |-> p]
NoRequest == Request(0, "none", "", NoPassword)

\* ---------------------------------------------------------------- initial
\* Passwords a pre-existing configuration file may hold: none, a text that
\* was never hashed (hand-edited file), a stored hash.
StoredPasswords == {NoPassword, <<1>>, Hash(<<1>>, 1)}
InitCertFiles == {AbsentFile, MalformedFile, UnreadableFile, PemFile(1)}
\* PemFile(0): a well-formed key that belongs to some other certificate
InitKeyFiles == {AbsentFile, MalformedFile, UnreadableFile, PemFile(1), PemFile(0)}
InitCfgFiles ==
    {AbsentCfg, MalformedCfg} \cup
    { CfgFile("ok", Configuration(NewDeviceID(1), GUIConfiguration(u, p), TRUE, TRUE)) :
        u \in {"", "a"}, p \in StoredPasswords }

\* Standard input: the lines left to read, or a stream that fails.
Stdin(st, ls) == [state |-> st, lines |-> ls]
ClosedStdin == Stdin("open", <<>>)

\* Generate is called directly, not through CLI.Run.
NoCLI ==
    /\ runPc = "none"
    /\ runErr = NoError
    /\ homeDir = ""
    /\ confDir = "conf"
    /\ stdin = ClosedStdin
    /\ stdinReads = 0
    /\ generateCalls = 0

WrapperInit ==
    /\ cfg = NoCfg
    /\ actor = "Stopped"
    /\ queue = <<>>
    /\ cur = NoRequest
    /\ signalled = {}
    /\ cancelled = FALSE
    /\ updateErr = NoError

Init ==
    /\ expandOK \in BOOLEAN
    /\ dirExists \in BOOLEAN
    /\ certFile \in InitCertFiles
    /\ keyFile \in InitKeyFiles
    /\ cfgFile \in InitCfgFiles
    \* files exist only inside an existing, resolvable directory
    /\ ~expandOK => ~dirExists
    /\ ~dirExists => certFile = AbsentFile /\ keyFile = AbsentFile /\ cfgFile = AbsentCfg
    /\ guiUser \in Users
    /\ guiPassword \in Passwords
    /\ noDefaultFolder \in BOOLEAN
    /\ skipPortProbing \in BOOLEAN
    /\ pc = "expand"
    /\ err = NoError
    /\ loadErr = NoError
    /\ cert = 0
    /\ myID = 0
    /\ WrapperInit
    /\ run = 1
    /\ logs = {}
    /\ genCalls = 0
    /\ saveCalls = 0
    /\ NoCLI
    /\ disk0 = [certFile |-> certFile, keyFile |-> keyFile, cfgFile |-> cfgFile,
                stdin |-> stdin, password |-> guiPassword]
    /\ prev = [ran |-> FALSE, id |-> 0, err |-> NoError, generated |-> 0]
    /\ guiBefore = NoCfg.GUI
    /\ submitted = <<>>
    /\ applied = <<>>
    /\ defaultCalls = 0

\* --------------------------------------------------------------- Generate
\* return before the serving context exists (lines 70, 74, 86, 96, 99)
Return(e) ==
    /\ err' = e
    /\ pc' = "done"

\* return after `defer cancel()` was registered (lines 111, 116, 119, 121)
ReturnDeferred(e) ==
    /\ err' = e
    /\ pc' = "cancel"

\* Errors Generate returns as it got them, without a stage label
\* (lines 70 and 74).
ErrExpandTilde == "fs.ExpandTilde error"
ErrEnsureDir == "syncthing.EnsureDir error"

\* lines 68-71
ExpandTilde ==
    /\ pc = "expand"
    /\ IF expandOK THEN pc' = "ensure" /\ err' = err
                   ELSE Return(ErrExpandTilde)
    /\ UNCHANGED <<disk, args, loadErr, cert, myID, wrapper, history>>

\* lines 73-76: an existing directory is kept; a missing one is created, or
\* cannot be.
EnsureDir ==
    /\ pc = "ensure"
    /\ \/ /\ dirExists
          /\ pc' = "load" /\ UNCHANGED <<err, dirExists>>
       \/ /\ ~dirExists
          /\ dirExists' = TRUE
          /\ pc' = "load" /\ err' = err
       \/ /\ ~dirExists
          /\ Return(ErrEnsureDir)
          /\ UNCHANGED dirExists
    /\ UNCHANGED <<expandOK, certFile, keyFile, cfgFile, args, loadErr, cert, myID,
                   wrapper, history>>

\* tls.LoadX509KeyPair's outcome on the two files: the certificate file is
\* read first, then the key file, then both are parsed and matched.
LoadPairResult(cf, kf) ==
    IF cf.state = "absent" THEN "not exist"
    ELSE IF cf.state = "unreadable" THEN "permission"
    ELSE IF kf.state = "absent" THEN "not exist"
    ELSE IF kf.state = "unreadable" THEN "permission"
    ELSE IF cf.state = "malformed" \/ kf.state = "malformed" THEN "malformed"
    ELSE IF cf.data # kf.data THEN "malformed"
    ELSE NoError

\* lines 79-83 with the test of line 81 inverted: a pair that loads is
\* regenerated, a pair that does not load is used.
LoadX509KeyPair_Inverted ==
    /\ pc = "load"
    /\ LET e == LoadPairResult(certFile, keyFile) IN
       /\ loadErr' = e
       /\ IF e # NoError
          THEN /\ cert' = certFile.data
               /\ logs' = logs \cup {LogKeyExists}
               /\ pc' = "id"
          ELSE /\ pc' = "generate"
               /\ UNCHANGED <<cert, logs>>
    /\ UNCHANGED <<disk, args, err, myID, wrapper, run, genCalls, saveCalls, defaultCalls, disk0,
                   prev, guiBefore, submitted, applied>>

\* lines 79-83 without the load: a certificate is generated on every run.
LoadX509KeyPair_AlwaysGenerate ==
    /\ pc = "load"
    /\ loadErr' = "not exist"
    /\ pc' = "generate"
    /\ UNCHANGED <<disk, args, err, cert, myID, wrapper, history>>

\* lines 79-83
LoadX509KeyPair ==
    /\ pc = "load"
    /\ LET e == LoadPairResult(certFile, keyFile) IN
       /\ loadErr' = e
       /\ IF e = NoError
          THEN /\ cert' = certFile.data
               /\ logs' = logs \cup {LogKeyExists}
               /\ pc' = "id"
          ELSE /\ pc' = "generate"
               /\ UNCHANGED <<cert, logs>>
    /\ UNCHANGED <<disk, args, err, myID, wrapper, run, genCalls, saveCalls, defaultCalls, disk0,
                   prev, guiBefore, submitted, applied>>

\* What syncthing.GenerateCertificate leaves at the two paths when it
\* succeeds with certificate c: the new pair, over whatever they held.
GeneratedPair(c) == [certFile |-> PemFile(c), keyFile |-> PemFile(c)]

\* lines 84-87.  The generation primitive produces a certificate unlike the
\* one on disk and persists it, or fails and writes nothing.
GenerateCertificate ==
    /\ pc = "generate"
    /\ genCalls' = genCalls + 1
    /\ \/ \E c \in Certs \ {certFile.data} :
            /\ certFile' = GeneratedPair(c).certFile
            /\ keyFile' = GeneratedPair(c).keyFile
            /\ cert' = c
            /\ pc' = "id" /\ err' = err
       \/ /\ Return("create certificate")
          /\ UNCHANGED <<certFile, keyFile, cert>>
    /\ UNCHANGED <<expandOK, dirExists, cfgFile, args, loadErr, myID, wrapper,
                   run, logs, saveCalls, defaultCalls, disk0, prev, guiBefore, submitted, applied>>

\* lines 89-90
DeriveID ==
    /\ pc = "id"
    /\ myID' = NewDeviceID(cert)
    /\ logs' = logs \cup {LogDeviceID}
    /\ pc' = "loadcfg"
    /\ UNCHANGED <<disk, args, err, loadErr, cert, wrapper, run, genCalls, saveCalls, defaultCalls,
                   disk0, prev, guiBefore, submitted, applied>>

\* config.Load on a well-formed file: its content, bound to the given ID.
LoadedConfig(f, id) == [f.cfg EXCEPT !.myID = id]

\* syncthing.DefaultConfig: a configuration for the given ID with no GUI
\* credentials, honouring the two switches.
DefaultConfiguration(id, noFolder, skipProbing) ==
    Configuration(id, GUIConfiguration("", NoPassword), ~noFolder, ~skipProbing)

\* cfg.Save: the file holds the configuration it was given.
SavedFile(c) == CfgFile("ok", c)

\* lines 92-100 with every load error taken for a missing file
Load_Masking ==
    /\ pc = "loadcfg"
    /\ \/ /\ cfgFile.state = "ok"
          /\ cfg' = LoadedConfig(cfgFile, myID)
          /\ pc' = "serve" /\ err' = err
       \/ /\ cfgFile.state # "ok"
          /\ pc' = "default"
          /\ UNCHANGED <<cfg, err>>
    /\ UNCHANGED <<disk, args, loadErr, cert, myID, actor, queue, cur, signalled,
                   cancelled, updateErr, history>>

\* lines 92-94, 98-100
Load ==
    /\ pc = "loadcfg"
    /\ \/ /\ cfgFile.state = "ok"
          /\ cfg' = LoadedConfig(cfgFile, myID)
          /\ pc' = "serve" /\ err' = err
       \/ /\ cfgFile.state = "absent"
          /\ pc' = "default"
          /\ UNCHANGED <<cfg, err>>
       \/ /\ cfgFile.state \notin {"ok", "absent"}
          /\ Return("load config")
          /\ UNCHANGED cfg
    /\ UNCHANGED <<disk, args, loadErr, cert, myID, actor, queue, cur, signalled,
                   cancelled, updateErr, history>>

\* lines 95-97 with the zero DeviceID in place of myID
DefaultConfig_ZeroID ==
    /\ pc = "default"
    /\ defaultCalls' = defaultCalls + 1
    /\ \/ /\ cfg' = DefaultConfiguration(0, noDefaultFolder, skipPortProbing)
          /\ pc' = "serve" /\ err' = err
       \/ /\ Return("create config")
          /\ UNCHANGED cfg
    /\ UNCHANGED <<disk, args, loadErr, cert, myID, actor, queue, cur, signalled,
                   cancelled, updateErr, run, logs, genCalls, saveCalls, disk0, prev,
                   guiBefore, submitted, applied>>

\* lines 95-97
DefaultConfig ==
    /\ pc = "default"
    /\ defaultCalls' = defaultCalls + 1
    /\ \/ /\ cfg' = DefaultConfiguration(myID, noDefaultFolder, skipPortProbing)
          /\ pc' = "serve" /\ err' = err
       \/ /\ Return("create config")
          /\ UNCHANGED cfg
    /\ UNCHANGED <<disk, args, loadErr, cert, myID, actor, queue, cur, signalled,
                   cancelled, updateErr, run, logs, genCalls, saveCalls, disk0, prev,
                   guiBefore, submitted, applied>>

\* lines 102-104 with cancel() called at once instead of deferred
Serve_EagerCancel ==
    /\ pc = "serve"
    /\ actor' = "Starting"
    /\ cancelled' = TRUE
    /\ pc' = "modify"
    /\ UNCHANGED <<disk, args, err, loadErr, cert, myID, cfg, queue, cur, signalled,
                   updateErr, history>>

\* lines 102-104 without line 103: no goroutine serves the wrapper
Serve_NoGoroutine ==
    /\ pc = "serve"
    /\ pc' = "modify"
    /\ UNCHANGED <<disk, args, err, loadErr, cert, myID, wrapper, history>>

\* lines 102-104: the goroutine is spawned; it starts serving when scheduled.
Serve ==
    /\ pc = "serve"
    /\ actor' = "Starting"
    /\ pc' = "modify"
    /\ UNCHANGED <<disk, args, err, loadErr, cert, myID, cfg, queue, cur, signalled,
                   cancelled, updateErr, history>>

\* a queue that serves the newest request first
Enqueue_Front(q, r) == <<r>> \o q

\* wrapper.Modify: the request joins the queue behind those already there.
Enqueue(q, r) == Append(q, r)

\* lines 106-112: the closure is queued with a new waiter, or refused.
Modify ==
    /\ pc = "modify"
    /\ \/ LET r == Request(Len(submitted) + 1, "gui", guiUser, guiPassword) IN
            /\ queue' = Enqueue(queue, r)
            /\ submitted' = Append(submitted, r)
            /\ pc' = "wait" /\ err' = err
       \/ /\ ReturnDeferred("modify config")
          /\ UNCHANGED <<queue, submitted>>
    /\ UNCHANGED <<disk, args, loadErr, cert, myID, cfg, actor, cur, signalled,
                   cancelled, updateErr, run, logs, genCalls, saveCalls, defaultCalls, disk0, prev,
                   guiBefore, applied>>

\* waiter.Wait returns once the waiter of the request was signalled
Waited(w) == w \in signalled

\* line 114 left out: Generate goes on without waiting
Wait_NoBlock ==
    /\ pc = "wait"
    /\ pc' = "check"
    /\ UNCHANGED <<disk, args, err, loadErr, cert, myID, wrapper, history>>

\* line 114
Wait ==
    /\ pc = "wait"
    /\ Waited(Len(submitted))
    /\ pc' = "check"
    /\ UNCHANGED <<disk, args, err, loadErr, cert, myID, wrapper, history>>

\* lines 115-117 left out: the closure's error is dropped
CheckUpdateErr_Ignored ==
    /\ pc = "check"
    /\ pc' = "save"
    /\ UNCHANGED <<disk, args, err, loadErr, cert, myID, wrapper, history>>

\* lines 115-117
CheckUpdateErr ==
    /\ pc = "check"
    /\ IF updateErr # NoError THEN ReturnDeferred(updateErr)
                              ELSE pc' = "save" /\ err' = err
    /\ UNCHANGED <<disk, args, loadErr, cert, myID, wrapper, history>>

\* lines 118-121 with the write skipped when the file already holds the
\* configuration
Save_OnlyWhenChanged ==
    /\ pc = "save"
    /\ IF cfgFile = SavedFile(cfg)
       THEN /\ ReturnDeferred(NoError)
            /\ UNCHANGED <<cfgFile, saveCalls>>
       ELSE /\ saveCalls' = saveCalls + 1
            /\ \/ /\ cfgFile' = SavedFile(cfg)
                  /\ ReturnDeferred(NoError)
               \/ /\ ReturnDeferred("save config")
                  /\ UNCHANGED cfgFile
    /\ UNCHANGED <<expandOK, dirExists, certFile, keyFile, args, loadErr, cert, myID,
                   wrapper, run, logs, genCalls, defaultCalls, disk0, prev, guiBefore,
                   submitted, applied>>

\* lines 118-121: the configuration is written, or the write fails and
\* leaves the file as it was.
Save ==
    /\ pc = "save"
    /\ saveCalls' = saveCalls + 1
    /\ \/ /\ cfgFile' = SavedFile(cfg)
          /\ ReturnDeferred(NoError)
       \/ /\ ReturnDeferred("save config")
          /\ UNCHANGED cfgFile
    /\ UNCHANGED <<expandOK, dirExists, certFile, keyFile, args, loadErr, cert, myID,
                   wrapper, run, logs, genCalls, defaultCalls, disk0, prev, guiBefore,
                   submitted, applied>>

\* line 104: the deferred cancel() runs as Generate returns
Cancel ==
    /\ pc = "cancel"
    /\ cancelled' = TRUE
    /\ pc' = "done"
    /\ UNCHANGED <<disk, args, err, loadErr, cert, myID, cfg, actor, queue, cur,
                   signalled, updateErr, history>>

\* ---------------------------------------------------- Configuration Actor
\* What running request r's closure on configuration c yields: Generate's
\* closure (lines 107-109) stores updateGUIAuthentication's result in
\* updateErr; a "set username" closure assigns the field.
RunClosure(c, r, hashOK, salt) ==
    IF r.kind = "gui"
    THEN LET u == updateGUIAuthentication(c.GUI, r.user, r.password, hashOK, salt)
         IN  [cfg |-> [c EXCEPT !.GUI = u.gui], logs |-> u.logs, err |-> u.err]
    ELSE [cfg |-> [c EXCEPT !.GUI.User = r.user], logs |-> {}, err |-> updateErr]

IsApplied(r) == Len(applied) > 0 /\ applied[Len(applied)] = r

\* the goroutine spawned at line 103 gets to run
ActorStart ==
    /\ actor = "Starting"
    /\ actor' = "Serving"
    /\ UNCHANGED <<disk, args, locals, cfg, queue, cur, signalled, cancelled,
                   updateErr, history>>

\* the actor takes the oldest queued request
ActorTake ==
    /\ actor = "Serving"
    /\ cur = NoRequest
    /\ queue # <<>>
    /\ cur' = Head(queue)
    /\ queue' = Tail(queue)
    /\ UNCHANGED <<disk, args, locals, cfg, actor, signalled, cancelled, updateErr,
                   history>>

\* the actor runs the closure of the request it holds
ActorApply ==
    /\ actor = "Serving"
    /\ cur # NoRequest
    /\ ~IsApplied(cur)
    /\ \E hashOK \in BOOLEAN, salt \in Salts :
         LET res == RunClosure(cfg, cur, hashOK, salt) IN
           /\ cfg' = res.cfg
           /\ updateErr' = res.err
           /\ logs' = logs \cup res.logs
    /\ guiBefore' = cfg.GUI
    /\ applied' = Append(applied, cur)
    /\ UNCHANGED <<disk, args, locals, actor, queue, cur, signalled, cancelled,
                   run, genCalls, saveCalls, defaultCalls, disk0, prev, submitted>>

\* the actor signals the waiter as soon as it holds the request, whether
\* or not the closure has run
ActorSignal_Early ==
    /\ actor = "Serving"
    /\ cur # NoRequest
    /\ signalled' = signalled \cup {cur.w}
    /\ cur' = IF IsApplied(cur) THEN NoRequest ELSE cur
    /\ UNCHANGED <<disk, args, locals, cfg, actor, queue, cancelled, updateErr,
                   history>>

\* the actor signals the waiter of the request it has applied
ActorSignal ==
    /\ actor = "Serving"
    /\ cur # NoRequest
    /\ IsApplied(cur)
    /\ signalled' = signalled \cup {cur.w}
    /\ cur' = NoRequest
    /\ UNCHANGED <<disk, args, locals, cfg, actor, queue, cancelled, updateErr,
                   history>>

\* an actor that writes the configuration out as it terminates
ActorStop_Persisting ==
    /\ actor \in {"Starting", "Serving"}
    /\ cancelled
    /\ cur = NoRequest
    /\ actor' = "Stopped"
    /\ cfgFile' = SavedFile(cfg)
    /\ UNCHANGED <<expandOK, dirExists, certFile, keyFile, args, locals, cfg, queue,
                   cur, signalled, cancelled, updateErr, history>>

\* the actor sees its context cancelled between two requests and returns
ActorStop ==
    /\ actor \in {"Starting", "Serving"}
    /\ cancelled
    /\ cur = NoRequest
    /\ actor' = "Stopped"
    /\ UNCHANGED <<disk, args, locals, cfg, queue, cur, signalled, cancelled,
                   updateErr, history>>

Actor == ActorStart \/ ActorTake \/ ActorApply \/ ActorSignal \/ ActorStop

\* ------------------------------------------------------------ single run
Generate ==
    \/ ExpandTilde \/ EnsureDir \/ LoadX509KeyPair \/ GenerateCertificate
    \/ DeriveID \/ Load \/ DefaultConfig \/ Serve \/ Modify \/ Wait
    \/ CheckUpdateErr \/ Save \/ Cancel

Next == Generate \/ Actor

\* One invocation of Generate from every disk and every argument list.
Spec == Init /\ [][Next]_vars

\* The calling goroutine and the goroutine spawned at line 103 are each
\* scheduled again and again while they have a step to take.
\* The runs start from the disks whose key pair is whole or missing and with
\* the two switches off; neither bears on scheduling.
InitFair ==
    /\ Init
    /\ certFile \in {AbsentFile, PemFile(1)}
    /\ keyFile \in {AbsentFile, PemFile(1)}
    /\ ~noDefaultFolder /\ ~skipPortProbing

SpecFair == InitFair /\ [][Next]_vars /\ WF_vars(Generate) /\ WF_vars(Actor)

\* ------------------------------------------------------------- whole runs
\* The first run starts from every disk; the two switches, which only
\* shape a default configuration, are left off.
InitTwice ==
    /\ Init
    /\ ~noDefaultFolder /\ ~skipPortProbing

\* The command is invoked again on the same directory, in a new process.
Restart ==
    /\ pc = "done"
    /\ run < MaxRuns
    /\ run' = run + 1
    /\ prev' = [ran |-> TRUE, id |-> myID, err |-> err, generated |-> genCalls]
    /\ guiUser' \in Users
    /\ guiPassword' \in Passwords
    /\ UNCHANGED <<noDefaultFolder, skipPortProbing, cli>>
    /\ defaultCalls' = 0
    /\ pc' = "expand"
    /\ err' = NoError
    /\ loadErr' = NoError
    /\ cert' = 0
    /\ myID' = 0
    /\ cfg' = NoCfg
    /\ actor' = "Stopped"
    /\ queue' = <<>>
    /\ cur' = NoRequest
    /\ signalled' = {}
    /\ cancelled' = FALSE
    /\ updateErr' = NoError
    /\ logs' = {}
    /\ genCalls' = 0
    /\ saveCalls' = 0
    /\ disk0' = [certFile |-> certFile, keyFile |-> keyFile, cfgFile |-> cfgFile,
                 stdin |-> stdin, password |-> guiPassword']
    /\ guiBefore' = NoCfg.GUI
    /\ submitted' = <<>>
    /\ applied' = <<>>
    /\ UNCHANGED disk

NextTwice == Generate \/ Actor \/ Restart

\* Consecutive invocations of Generate on the same directory.
SpecTwice == InitTwice /\ [][NextTwice]_vars

\* ------------------------------------------------------------ actor alone
\* The wrapper serving a configuration while concurrent callers submit
\* "set username" requests; its owner may cancel it at any time.
ActorUsers == {"a", "b"}

InitActor ==
    /\ expandOK = TRUE
    /\ dirExists = TRUE
    /\ certFile = PemFile(1)
    /\ keyFile = PemFile(1)
    /\ cfgFile = AbsentCfg
    /\ guiUser = ""
    /\ guiPassword = NoPassword
    /\ noDefaultFolder = FALSE
    /\ skipPortProbing = FALSE
    /\ pc = "serving"
    /\ err = NoError
    /\ loadErr = NoError
    /\ cert = 1
    /\ myID = NewDeviceID(1)
    /\ cfg \in { Configuration(NewDeviceID(1), GUIConfiguration(u, NoPassword), TRUE, TRUE) :
                   u \in Users }
    /\ actor \in {"Stopped", "Starting"}
    /\ queue = <<>>
    /\ cur = NoRequest
    /\ signalled = {}
    /\ cancelled = FALSE
    /\ updateErr = NoError
    /\ run = 1
    /\ logs = {}
    /\ genCalls = 0
    /\ saveCalls = 0
    /\ NoCLI
    /\ disk0 = [certFile |-> certFile, keyFile |-> keyFile, cfgFile |-> cfgFile,
                stdin |-> stdin, password |-> guiPassword]
    /\ prev = [ran |-> FALSE, id |-> 0, err |-> NoError, generated |-> 0]
    /\ guiBefore = NoCfg.GUI
    /\ submitted = <<>>
    /\ applied = <<>>
    /\ defaultCalls = 0

\* the owner spawns the serving goroutine
OwnerServe ==
    /\ pc = "serving"
    /\ actor = "Stopped"
    /\ ~cancelled
    /\ actor' = "Starting"
    /\ UNCHANGED <<disk, args, locals, cfg, queue, cur, signalled, cancelled,
                   updateErr, history>>

\* some caller submits "set username u"
Submit ==
    /\ pc = "serving"
    /\ Len(submitted) < MaxSubmit
    /\ \E u \in ActorUsers :
         LET r == Request(Len(submitted) + 1, "setUser", u, NoPassword) IN
           /\ queue' = Enqueue(queue, r)
           /\ submitted' = Append(submitted, r)
    /\ UNCHANGED <<disk, args, locals, cfg, actor, cur, signalled, cancelled,
                   updateErr, run, logs, genCalls, saveCalls, defaultCalls, disk0, prev, guiBefore,
                   applied>>

\* the owner cancels the serving context
OwnerCancel ==
    /\ pc = "serving"
    /\ ~cancelled
    /\ cancelled' = TRUE
    /\ UNCHANGED <<disk, args, locals, cfg, actor, queue, cur, signalled, updateErr,
                   history>>

NextActor == OwnerServe \/ Submit \/ OwnerCancel \/ Actor

SpecActor == InitActor /\ [][NextActor]_vars

\* ---------------------------------------------------------------- CLI.Run
\* The password argument that stands for "read it from standard input".
Sentinel == <<45>>
Ones(n) == [i \in 1..n |-> 1]

ErrConflict == "--home must not be used together with --config"
ErrReadPassword == "failed reading GUI password"
ErrGenerate == "failed to generate config and keys"
\* locations.GetBaseDir(locations.ConfigBaseDir)
BaseDir == "base"

\* What standard input may hold: a failing stream, nothing, one line, a line
\* that fills the reader's buffer, a line longer than the buffer, two
\* lines, an empty line.
StdinInputs ==
    {Stdin("broken", <<>>), ClosedStdin,
     Stdin("open", <<<<1>>>>),
     Stdin("open", <<Ones(BufSize)>>),
     Stdin("open", <<Ones(BufSize + 1)>>),
     Stdin("open", <<<<2>>, <<1>>>>),
     Stdin("open", <<NoPassword>>)}

\* bufio.Reader.ReadLine on a new reader over the stream: an error when
\* nothing can be read; else the next line without its end-of-line, or,
\* when the line does not fit the buffer, its first BufSize bytes with
\* isPrefix set, the remainder being left for later calls.
ReadLine(in) ==
    IF in.state = "broken" THEN
        [line |-> <<>>, isPrefix |-> FALSE, err |-> "read error", rest |-> in]
    ELSE IF in.lines = <<>> THEN
        [line |-> <<>>, isPrefix |-> FALSE, err |-> "EOF", rest |-> in]
    ELSE LET l == Head(in.lines) IN
        IF Len(l) > BufSize
        THEN [line |-> SubSeq(l, 1, BufSize), isPrefix |-> TRUE, err |-> NoError,
              rest |-> Stdin("open", <<SubSeq(l, BufSize + 1, Len(l))>> \o Tail(in.lines))]
        ELSE [line |-> l, isPrefix |-> FALSE, err |-> NoError,
              rest |-> Stdin("open", Tail(in.lines))]

\* lines 41-49 without the test of line 42: --home wins over --config
RunArgs_HomeWins ==
    /\ runPc = "args"
    /\ confDir' = IF homeDir # "" THEN homeDir
                  ELSE IF confDir = "" THEN BaseDir ELSE confDir
    /\ runPc' = "stdin"
    /\ UNCHANGED <<disk, guiUser, guiPassword, noDefaultFolder, skipPortProbing, runErr,
                   homeDir, stdin, stdinReads, generateCalls, locals, wrapper, history>>

\* lines 41-49
RunArgs ==
    /\ runPc = "args"
    /\ IF homeDir # "" /\ confDir # ""
       THEN /\ runErr' = ErrConflict
            /\ runPc' = "exit"
            /\ UNCHANGED confDir
       ELSE /\ confDir' = IF homeDir # "" THEN homeDir
                          ELSE IF confDir = "" THEN BaseDir ELSE confDir
            /\ runPc' = "stdin"
            /\ UNCHANGED runErr
    /\ UNCHANGED <<disk, guiUser, guiPassword, noDefaultFolder, skipPortProbing,
                   homeDir, stdin, stdinReads, generateCalls, locals, wrapper, history>>

\* lines 52-59: isPrefix is discarded (line 54)
RunReadPassword ==
    /\ runPc = "stdin"
    /\ IF guiPassword = Sentinel
       THEN LET r == ReadLine(stdin) IN
            /\ stdinReads' = stdinReads + 1
            /\ stdin' = r.rest
            /\ IF r.err # NoError
               THEN /\ runErr' = ErrReadPassword
                    /\ runPc' = "exit"
                    /\ UNCHANGED guiPassword
               ELSE /\ guiPassword' = r.line
                    /\ runPc' = "call"
                    /\ UNCHANGED runErr
       ELSE /\ runPc' = "call"
            /\ UNCHANGED <<guiPassword, stdin, stdinReads, runErr>>
    /\ UNCHANGED <<disk, guiUser, noDefaultFolder, skipPortProbing, homeDir, confDir,
                   generateCalls, locals, wrapper, history>>

\* line 61: Generate is entered with c.ConfDir, c.GUIUser, c.GUIPassword
RunGenerate ==
    /\ runPc = "call"
    /\ pc = "idle"
    /\ generateCalls' = generateCalls + 1
    /\ pc' = "expand"
    /\ runPc' = "generate"
    /\ UNCHANGED <<disk, guiUser, guiPassword, noDefaultFolder, skipPortProbing, runErr,
                   homeDir, confDir, stdin, stdinReads, err, loadErr, cert, myID,
                   wrapper, history>>

\* lines 61-64: Generate has returned
RunReturn ==
    /\ runPc = "generate"
    /\ pc = "done"
    /\ runErr' = IF err = NoError THEN NoError ELSE ErrGenerate
    /\ runPc' = "exit"
    /\ UNCHANGED <<disk, guiUser, guiPassword, noDefaultFolder, skipPortProbing,
                   homeDir, confDir, stdin, stdinReads, generateCalls, locals, wrapper,
                   history>>

Run == RunArgs \/ RunReadPassword \/ RunGenerate \/ RunReturn

\* The command starts with any combination of --home and --config, a
\* password argument that is absent, literal or the sentinel, and any
\* standard input; the switches are off.
InitRun ==
    /\ expandOK \in BOOLEAN
    /\ dirExists \in BOOLEAN
    /\ certFile \in {AbsentFile, PemFile(1)}
    /\ keyFile \in {AbsentFile, PemFile(1)}
    /\ cfgFile \in {AbsentCfg, MalformedCfg,
                    CfgFile("ok", Configuration(NewDeviceID(1),
                                                GUIConfiguration("a", <<1>>), TRUE, TRUE))}
    /\ ~expandOK => ~dirExists
    /\ ~dirExists => certFile = AbsentFile /\ keyFile = AbsentFile /\ cfgFile = AbsentCfg
    /\ guiUser \in {"", "a"}
    /\ guiPassword \in {NoPassword, <<1>>, Sentinel}
    /\ noDefaultFolder = FALSE
    /\ skipPortProbing = FALSE
    /\ pc = "idle"
    /\ err = NoError
    /\ loadErr = NoError
    /\ cert = 0
    /\ myID = 0
    /\ WrapperInit
    /\ run = 1
    /\ logs = {}
    /\ genCalls = 0
    /\ saveCalls = 0
    /\ defaultCalls = 0
    /\ stdin \in StdinInputs
    /\ disk0 = [certFile |-> certFile, keyFile |-> keyFile, cfgFile |-> cfgFile,
                stdin |-> stdin, password |-> guiPassword]
    /\ prev = [ran |-> FALSE, id |-> 0, err |-> NoError, generated |-> 0]
    /\ guiBefore = NoCfg.GUI
    /\ submitted = <<>>
    /\ applied = <<>>
    /\ runPc = "args"
    /\ runErr = NoError
    /\ homeDir \in {"", "home"}
    /\ confDir \in {"", "conf"}
    /\ stdinReads = 0
    /\ generateCalls = 0

NextRun == Run \/ Generate \/ Actor

SpecRun == InitRun /\ [][NextRun]_vars

\* ------------------------------------------------------------- properties
\* Whether the pair on disk when this run started was well-formed.
ValidPairAtStart == LoadPairResult(disk0.certFile, disk0.keyFile) = NoError
KeyFilesUntouched == certFile = disk0.certFile /\ keyFile = disk0.keyFile
UpdaterLogs == logs \cap {LogUser, LogPassword}
\* Generate's closure has run.
ClosureRan == Len(applied) = 1 /\ applied[1].kind = "gui"

\* C1: when loading the pair fails for a reason other than absence, the
\* generation primitive is never invoked, the two files stay as they were
\* and Generate returns a failure.
C1_LoadFailureIsFatal ==
    loadErr \in {"permission", "malformed"} =>
        /\ genCalls = 0
        /\ KeyFilesUntouched
        /\ pc = "done" => err # NoError

\* C2: when a well-formed certificate and key exist at the start, then for
\* all arguments the generation primitive is never invoked, the two files
\* are never written, and the warning is logged once the pair was loaded.
C2_ExistingKeyNeverOverwritten ==
    ValidPairAtStart =>
        /\ genCalls = 0
        /\ pc # "generate"
        /\ KeyFilesUntouched
        /\ pc \notin {"expand", "ensure", "load"} => LogKeyExists \in logs

C2_Witness ==
    /\ ValidPairAtStart
    /\ pc = "done" /\ err = NoError
    /\ guiUser # "" /\ guiPassword # NoPassword
    /\ noDefaultFolder /\ skipPortProbing
    /\ LogKeyExists \in logs

\* C3: a run that follows a successful run on the same directory derives
\* the same device ID and writes neither the certificate nor the key file.
C3_SecondRunSameIdentity ==
    (prev.ran /\ prev.err = NoError) =>
        /\ genCalls = 0
        /\ KeyFilesUntouched
        /\ myID # 0 => myID = prev.id
        /\ pc = "done" => myID = prev.id

C3_Witness ==
    /\ prev.ran /\ prev.err = NoError /\ prev.generated = 1
    /\ pc = "done" /\ err = NoError
    /\ myID = prev.id
    /\ genCalls = 0

\* What the queued mutation leaves in GUI sub-record g.
MutationIn(g) ==
    /\ guiUser # "" => g.User = guiUser
    /\ (guiPassword # NoPassword /\ guiBefore.Password # guiPassword) =>
           \E salt \in Salts : g.Password = Hash(guiPassword, salt)

\* C4: Save is invoked only after the waiter of the queued mutation was
\* signalled, never before or while the mutation is applied; when Generate
\* returns success the file holds the configuration with the mutation applied.
C4_SaveAfterWaiter ==
    /\ (pc = "save" \/ saveCalls > 0) =>
           /\ Len(submitted) = 1
           /\ submitted[1].w \in signalled
           /\ IsApplied(submitted[1])
           /\ cur = NoRequest
    /\ (pc = "done" /\ err = NoError) =>
           /\ cfgFile.state = "ok" /\ cfgFile.cfg = cfg
           /\ MutationIn(cfgFile.cfg.GUI)

C4_Witness ==
    /\ pc = "done" /\ err = NoError /\ saveCalls = 1
    /\ guiUser # "" /\ guiBefore.User # guiUser
    /\ guiPassword # NoPassword /\ guiBefore.Password # guiPassword
    /\ cfgFile.cfg.GUI.User = guiUser
    /\ cfgFile # disk0.cfgFile

\* C5: when hashing fails inside the mutation, Generate returns that error
\* and never invokes Save, so the configuration file stays as it was, also
\* when the mutation had already replaced the user name in memory.
C5_HashFailureNotPersisted ==
    updateErr # NoError =>
        /\ saveCalls = 0
        /\ pc # "save"
        /\ cfgFile = disk0.cfgFile
        /\ pc = "done" => err = updateErr

C5_Witness ==
    /\ pc = "done" /\ err = HashingError
    /\ guiUser # "" /\ guiBefore.User # guiUser /\ cfg.GUI.User = guiUser
    /\ cfgFile.state = "ok" /\ cfgFile = disk0.cfgFile
    /\ cfgFile.cfg.GUI.User # guiUser

\* C6: the actor applies requests one at a time in submission order: what
\* has been applied is a prefix of what was submitted, the user name in
\* memory is the one set by the request applied last, and once every
\* submitted request is signalled it is the one submitted last.
C6_MutationsInSubmissionOrder ==
    /\ Len(applied) <= Len(submitted)
    /\ \A i \in 1..Len(applied) : applied[i] = submitted[i]
    /\ Len(applied) > 0 => cfg.GUI.User = applied[Len(applied)].user
    /\ (Len(submitted) > 0 /\ \A i \in 1..Len(submitted) : submitted[i].w \in signalled)
           => cfg.GUI.User = submitted[Len(submitted)].user

C6_Witness ==
    /\ Len(submitted) = 2
    /\ submitted[1].user = "a" /\ submitted[2].user = "b"
    /\ signalled = {1, 2}
    /\ cfg.GUI.User = "b"

\* C7: a waiter is signalled only after its request's closure has run, so
\* Generate reads updateErr (line 115) after the closure wrote it; the
\* mutation need not be on disk then.
C7_SignalAfterApply ==
    /\ \A w \in signalled : \E i \in 1..Len(applied) : applied[i].w = w
    /\ pc = "check" => (ClosureRan /\ applied[1] = submitted[1])

C7_Witness ==
    /\ pc = "check"
    /\ ClosureRan
    /\ cfg.GUI # guiBefore
    /\ cfgFile.state = "ok" /\ cfgFile.cfg.GUI = guiBefore

\* C8: after a successful run that was given a non-empty password, the
\* Password field of the saved configuration is not the supplied plaintext.
C8_PasswordAtRestIsHash ==
    (pc = "done" /\ err = NoError /\ guiPassword # NoPassword) =>
        /\ cfgFile.state = "ok"
        /\ cfgFile.cfg.GUI.Password # guiPassword

\* C9: the updater changes no field and logs nothing when neither value is
\* supplied, and when the supplied user is the current one and the supplied
\* password is the one the stored hash was made from.
C9_NoOpWhenNothingToChange ==
    ClosureRan =>
        LET neither == guiUser = "" /\ guiPassword = NoPassword
            match == /\ guiUser # "" /\ guiUser = guiBefore.User
                     /\ guiPassword # NoPassword
                     /\ \E salt \in Salts : guiBefore.Password = Hash(guiPassword, salt)
        IN  (neither \/ match) => (cfg.GUI = guiBefore /\ UpdaterLogs = {})

\* C10: with the current user name and no password the sub-record is left
\* as it was and nothing is logged; a supplied user name that differs
\* replaces the current one and is logged; without a password the Password
\* field is left as it was.
C10_UserNameUpdate ==
    ClosureRan =>
        /\ (guiUser = guiBefore.User /\ guiPassword = NoPassword) =>
               (cfg.GUI = guiBefore /\ UpdaterLogs = {})
        /\ (guiUser # "" /\ guiUser # guiBefore.User) =>
               (cfg.GUI.User = guiUser /\ LogUser \in logs)
        /\ guiPassword = NoPassword => cfg.GUI.Password = guiBefore.Password

C10_Witness ==
    /\ ClosureRan
    /\ guiUser # "" /\ guiUser # guiBefore.User /\ guiBefore.User # ""
    /\ guiPassword = NoPassword
    /\ cfg.GUI.User = guiUser /\ LogUser \in logs
    /\ cfg.GUI.Password = guiBefore.Password /\ guiBefore.Password # NoPassword

\* C11: when loading the configuration fails with an error other than
\* "file does not exist", Generate fails without building a default
\* configuration, starting the actor, queueing a mutation or saving; the
\* default-configuration primitive is invoked only after "does not exist".
C11_LoadErrorIsFatal ==
    /\ disk0.cfgFile.state \notin {"ok", "absent"} =>
           /\ defaultCalls = 0 /\ pc # "default"
           /\ cfg = NoCfg
           /\ actor = "Stopped" /\ ~cancelled
           /\ submitted = <<>> /\ queue = <<>>
           /\ saveCalls = 0 /\ cfgFile = disk0.cfgFile
           /\ pc = "done" => err # NoError
    /\ (pc = "default" \/ defaultCalls > 0) =>
           (disk0.cfgFile.state = "absent" /\ defaultCalls <= 1)

C11_Witness ==
    /\ disk0.cfgFile = MalformedCfg
    /\ pc = "done" /\ err = "load config"
    /\ myID # 0
    /\ defaultCalls = 0

\* The labels Generate wraps a stage's failure in (lines 86, 96, 99, 111, 119).
StageLabels ==
    {"create certificate", "create config", "load config", "modify config",
     "save config"}

\* C12: every failure Generate returns carries the label of the stage it
\* occurred in.
C12_FailuresCarryStageLabel ==
    (pc = "done" /\ err # NoError) => err \in StageLabels

\* C13: the configuration file changes only in a Save step; applying a
\* mutation, signalling its waiter and the actor's termination leave it.
C13_DiskChangesOnlyAtSave ==
    [][cfgFile' # cfgFile => (pc = "save" /\ saveCalls' = saveCalls + 1)]_vars

C13_Witness ==
    /\ ClosureRan /\ cfg.GUI # guiBefore
    /\ signalled # {}
    /\ cancelled /\ actor = "Stopped"
    /\ cfgFile = disk0.cfgFile

\* C15: the ID given to config.Load and syncthing.DefaultConfig is the one
\* derived from the certificate loaded or generated in this invocation, and
\* when the configuration file was absent the configuration that is served,
\* mutated and saved is a default configuration bound to that ID.
C15_DefaultBoundToIdentity ==
    /\ myID # 0 =>
           /\ cert \in Certs /\ myID = NewDeviceID(cert)
           /\ certFile = PemFile(cert) /\ keyFile = PemFile(cert)
           /\ \/ loadErr = NoError /\ genCalls = 0 /\ certFile = disk0.certFile
              \/ loadErr # NoError /\ genCalls = 1
    /\ cfg # NoCfg => (myID # 0 /\ cfg.myID = myID)
    /\ (disk0.cfgFile = AbsentCfg /\ cfg # NoCfg) =>
           /\ defaultCalls = 1
           /\ cfg.defaultFolder = ~noDefaultFolder
           /\ cfg.probed = ~skipPortProbing
           /\ applied = <<>> =>
                  cfg = DefaultConfiguration(NewDeviceID(cert), noDefaultFolder,
                                             skipPortProbing)
    /\ (disk0.cfgFile = AbsentCfg /\ pc = "done" /\ err = NoError) =>
           /\ cfgFile = SavedFile(cfg)
           /\ cfgFile.cfg.myID = NewDeviceID(certFile.data)

C15_Witness ==
    /\ disk0.cfgFile = AbsentCfg
    /\ pc = "done" /\ err = NoError
    /\ cfgFile.state = "ok" /\ cfgFile.cfg.myID = NewDeviceID(2)
    /\ cfgFile.cfg.GUI.User = "a"

\* C19 as stated: every invocation enqueues exactly one mutation and saves
\* at most once; a successful one saves exactly once and leaves the
\* certificate, key and configuration files in place.
C19_ExactlyOneMutationAlways ==
    pc = "done" =>
        /\ Len(submitted) = 1
        /\ saveCalls <= 1
        /\ err = NoError =>
               /\ saveCalls = 1
               /\ certFile.state = "ok" /\ keyFile.state = "ok" /\ cfgFile.state = "ok"

\* C19, amended: an invocation enqueues at most one mutation, and exactly
\* one once Modify has accepted it (so in every successful invocation); Save
\* is invoked at most once, and exactly once on success, also when neither
\* user name nor password was given; after success the three files exist.
C19_OneMutationOneSave ==
    /\ Len(submitted) <= 1
    /\ saveCalls <= 1
    /\ pc \in {"wait", "check", "save"} => Len(submitted) = 1
    /\ (pc = "done" /\ err = NoError) =>
           /\ Len(submitted) = 1 /\ applied = submitted
           /\ saveCalls = 1
           /\ certFile.state = "ok" /\ keyFile.state = "ok" /\ cfgFile.state = "ok"

C19_Witness ==
    /\ pc = "done" /\ err = NoError
    /\ guiUser = "" /\ guiPassword = NoPassword
    /\ disk0.cfgFile.state = "ok" /\ cfgFile = disk0.cfgFile
    /\ Len(submitted) = 1 /\ saveCalls = 1

\* The errors Generate can return once the actor has been started
\* (lines 111, 116, 119) and success (line 121).
AfterServe == {NoError, "modify config", HashingError, "save config"}

\* C16: the serving context is cancelled only as Generate returns, on
\* success not before Save has written the file; it is cancelled on every
\* return after the actor was started; the actor then eventually stops, and
\* what it applied to the in-memory configuration stays.
C16_CancelOnlyAtReturn ==
    /\ [](cancelled => (pc = "done" /\ err \in AfterServe))
    /\ []((cancelled /\ err = NoError) => (saveCalls = 1 /\ cfgFile = SavedFile(cfg)))
    /\ []((pc = "done" /\ err \in AfterServe) => cancelled)
    /\ (cancelled ~> (actor = "Stopped"))
    /\ [][cancelled' => cfg' = cfg]_vars
    /\ [][(cancelled /\ actor = "Stopped") => actor' = "Stopped"]_vars

C16_Witness ==
    /\ pc = "done" /\ err = HashingError
    /\ cancelled /\ actor = "Stopped"
    /\ ClosureRan /\ cfg.GUI # guiBefore
    /\ saveCalls = 0

\* C18: with both goroutines scheduled fairly every invocation of Generate
\* ends, with a result that no longer changes, and a Wait on an enqueued
\* mutation is always eventually over, also when the actor had not begun
\* to serve when the mutation was submitted.
C18_GenerateTerminates ==
    /\ <>[](pc = "done")
    /\ [][pc = "done" => (pc' = "done" /\ err' = err)]_vars
    /\ ((pc = "wait") ~> (pc = "check"))
    /\ ((pc = "wait" /\ actor = "Starting") ~> (pc = "check" /\ actor = "Serving"))

C18_Witness ==
    /\ pc = "wait"
    /\ actor = "Starting"
    /\ queue # <<>> /\ signalled = {}

\* The files are as they were when the command started.
FilesUntouched ==
    /\ certFile = disk0.certFile
    /\ keyFile = disk0.keyFile
    /\ cfgFile = disk0.cfgFile

\* C14: standard input is read only when the password argument is "-", and
\* then exactly one line is read and is the password Generate is given; when
\* the read fails Run returns the input error, Generate is not invoked and
\* no file is created or changed.
C14_PasswordIsTheLineRead ==
    /\ (stdinReads > 0 \/ stdin # disk0.stdin) => disk0.password = Sentinel
    /\ stdinReads <= 1
    /\ (generateCalls > 0 /\ disk0.password # Sentinel) => guiPassword = disk0.password
    /\ (generateCalls > 0 /\ disk0.password = Sentinel) =>
           /\ stdinReads = 1
           /\ guiPassword = Head(disk0.stdin.lines)
           /\ stdin.lines = Tail(disk0.stdin.lines)
    /\ (disk0.password = Sentinel /\ runPc \in {"call", "generate", "exit"}
            /\ runErr # ErrConflict
            /\ (disk0.stdin.state = "broken" \/ disk0.stdin.lines = <<>>)) =>
           /\ runPc = "exit" /\ runErr = ErrReadPassword
           /\ generateCalls = 0 /\ pc = "idle"
           /\ FilesUntouched

\* C17: with both --home and --config Run returns the conflict error before
\* it reads standard input or invokes Generate, and nothing on disk changes;
\* with --home alone Generate is given the home directory as confDir.
C17_HomeAndConfigConflict ==
    /\ [][(runPc = "args" /\ homeDir # "" /\ confDir # "") =>
              (runPc' = "exit" /\ runErr' = ErrConflict)]_vars
    /\ []((runPc = "exit" /\ runErr = ErrConflict) =>
              /\ stdinReads = 0 /\ stdin = disk0.stdin
              /\ generateCalls = 0 /\ pc = "idle"
              /\ FilesUntouched)
    /\ []((homeDir # "" /\ generateCalls > 0) => confDir = homeDir)
    /\ []((homeDir = "" /\ generateCalls > 0) => confDir \in {"conf", BaseDir})

C17_Witness ==
    /\ runPc = "exit" /\ runErr = ErrConflict
    /\ homeDir = "home" /\ confDir = "conf"
    /\ guiPassword = Sentinel /\ stdin.lines # <<>>

====
